---- MODULE Spec2Model ----
(***************************************************************************)
(* Media assembly pipeline of the repository:                              *)
(*   backend/core/video_engine/advanced_video_builder.py (AdvancedVideo-   *)
(*   Builder), backend/core/video_engine/video_orchestrator.py (Video-     *)
(*   Orchestrator) and backend/utils/error_handler.py (retry_with_backoff, *)
(*   safe_file_operation).                                                 *)
(*                                                                         *)
(* Spec            one build call on an executor thread: encoder probe,    *)
(*                 analysis, transcodes, validation, cleanup, retry.       *)
(* SpecConcurrent  the same with several executor threads.                 *)
(* SpecFunctions   the pure computations (subtitle timing, loop and trim   *)
(*                 arithmetic) applied to inputs drawn from bounded sets.  *)
(*                                                                         *)
(* The external engine (ffmpeg/ffprobe), the clock and the file system are *)
(* the environment: every outcome they can give is a nondeterministic      *)
(* choice of the action that calls them.                                   *)
(***************************************************************************)
EXTENDS Integers, Sequences, FiniteSets, TLC

\* ------------------------------------------------------------------ bounds
NumJobs == 2          \* build jobs that may be in flight together
MaxClock == 3         \* seconds the clock may advance while jobs are in flight
MaxWords == 9         \* words of a script
MaxHalfSeconds == 8   \* longest duration drawn, in half seconds
MaxPathLen == 3       \* characters of a subtitle path
MaxDim == 33          \* largest width and height of a background frame

\* ------------------------------------------------------- program constants
max_retries == 2      \* @retry_with_backoff(max_retries=2)
backoff_factor == 2   \* retry_with_backoff(backoff_factor=2.0)
retry_after == 1      \* RetryableError(retry_after=1)
MinOutputSize == 1000 \* os.path.getsize(output_path) < 1000

Jobs == 1..NumJobs
Kinds == {"gpu", "orch"}   \* build_video_gpu_accelerated | generate_video_from_script
Encoders == {"h264_nvenc", "h264_amf", "libx264"}
OutSizes == {400, 1000}   \* sizes an engine run may leave in the output file

VARIABLES
    clock,      \* int(time.time()): whole seconds
    files,      \* temporary paths that exist on disk: <<prefix, timestamp>>
    output,     \* output[j]: {} when the output file is missing, else {size}
    kind,       \* which entry point job j was started through
    pc,         \* position of job j's thread
    attempt,    \* retry_with_backoff's loop variable
    wake,       \* clock value at which time.sleep(wait_time) returns
    listing,    \* what `ffmpeg -encoders` lists during job j's current probe
    idx,        \* get_optimal_encoder: position in the candidate list
    gpu,        \* get_optimal_encoder: what check_gpu_acceleration returned
    encoder,    \* the encoder get_optimal_encoder returned to job j
    via,        \* "tested": returned at line 93; "fallback": returned at line 98
    temps,      \* the temporary paths job j computed for itself
    exc,        \* the exception in flight / finally raised ("none" when none)
    result,     \* "none" | "success" | "failed"
    workers,    \* threads that run build calls (executor and event loop)
    afterHwFailure, \* history: job j's previous attempt used a hardware
                \* encoder and its engine transcode exited non-zero
    firstProbe, \* history: {} until a get_optimal_encoder call has returned,
                \* then {the encoder the first such call returned}
    call,       \* pure-function specifications: the inputs
    ret,        \* pure-function specifications: the value returned
    sched,      \* SmartScheduler: the scheduled items (<<>> when not modelled)
    fast        \* fast_video_builder: the call in progress

jobVars == <<kind, pc, attempt, wake, listing, idx, gpu, encoder, via, temps,
             exc, result>>
histVars == <<workers, afterHwFailure, firstProbe>>
pipeVars == <<clock, files, output, jobVars, histVars>>
fnVars == <<call, ret>>
auxVars == <<sched, fast>>
vars == <<pipeVars, fnVars, auxVars>>

NoCall == [fn |-> "none"]

\* No scheduler and no fast builder call.
AuxIdle == sched = <<>> /\ fast = [pc |-> "none"]

InitPipeline ==
    /\ clock = 0
    /\ files = {}
    /\ output = [j \in Jobs |-> {}]
    /\ kind = [j \in Jobs |-> "gpu"]
    /\ pc = [j \in Jobs |-> "idle"]
    /\ attempt = [j \in Jobs |-> 0]
    /\ wake = [j \in Jobs |-> 0]
    /\ listing = [j \in Jobs |-> {}]
    /\ idx = [j \in Jobs |-> 0]
    /\ gpu = [j \in Jobs |-> FALSE]
    /\ encoder = [j \in Jobs |-> "libx264"]
    /\ via = [j \in Jobs |-> "none"]
    /\ temps = [j \in Jobs |-> {}]
    /\ exc = [j \in Jobs |-> "none"]
    /\ result = [j \in Jobs |-> "none"]
    /\ afterHwFailure = [j \in Jobs |-> FALSE]
    /\ firstProbe = {}

\* One executor thread: one build call.
Init ==
    /\ InitPipeline
    /\ AuxIdle
    /\ workers = 1
    /\ call = NoCall
    /\ ret = <<>>

\* ------------------------------------------------------------ error_handler
Max(a, b) == IF a >= b THEN a ELSE b
Min(a, b) == IF a <= b THEN a ELSE b

\* safe_file_operation: FileNotFoundError and PermissionError become
\* NonRetryableError, any other OSError becomes RetryableError, everything else
\* passes through unchanged.
safe_file_operation(e) ==
    CASE e = "FileNotFoundError" -> "NonRetryableError: File not found"
      [] e = "PermissionError" -> "NonRetryableError: Permission denied"
      [] e = "OSError" -> "RetryableError: OS error"
      [] OTHER -> e

NonRetryableError == {"NonRetryableError: File not found",
                      "NonRetryableError: Permission denied"}
RetryableError == {"RetryableError: OS error",
                   "RetryableError: Video analysis failed"}

\* A variant that gives up one attempt later.
retry_gives_up_late(att, e) == att = max_retries + 1 \/ e \in NonRetryableError

\* retry_with_backoff, the except branch: TRUE when the exception is re-raised
\* to the caller (last attempt, or NonRetryableError), FALSE when the wrapper
\* sleeps and calls the function again.
retry_gives_up(att, e) == att = max_retries \/ e \in NonRetryableError

\* retry_with_backoff: wait_time = backoff_factor ** attempt, raised to
\* retry_after for a RetryableError.
wait_time(att, e) ==
    IF e \in RetryableError THEN Max(backoff_factor ^ att, retry_after)
    ELSE backoff_factor ^ att

\* The call of job j ends by raising e.
Fail(j, e) ==
    /\ pc' = [pc EXCEPT ![j] = "done"]
    /\ result' = [result EXCEPT ![j] = "failed"]
    /\ exc' = [exc EXCEPT ![j] = e]
    /\ UNCHANGED <<attempt, wake>>

\* The call of job j returns normally.
Succeed(j) ==
    /\ pc' = [pc EXCEPT ![j] = "done"]
    /\ result' = [result EXCEPT ![j] = "success"]
    /\ exc' = [exc EXCEPT ![j] = "none"]
    /\ UNCHANGED <<attempt, wake>>

\* Exception e leaves the decorated function body of job j.
\*   build_video_gpu_accelerated: @retry_with_backoff(@safe_file_operation(...))
\*   combine_components: @safe_file_operation(...), then the try/except of
\*   generate_video_from_script, which re-raises.
Raised(j, e) ==
    LET e1 == safe_file_operation(e) IN
    IF kind[j] = "gpu" /\ ~retry_gives_up(attempt[j], e1)
    THEN /\ pc' = [pc EXCEPT ![j] = "sleep"]
         /\ wake' = [wake EXCEPT ![j] = clock + wait_time(attempt[j], e1)]
         /\ exc' = [exc EXCEPT ![j] = e1]
         /\ UNCHANGED <<attempt, result>>
    ELSE Fail(j, e1)

\* ------------------------------------------------------------------ helpers
IsHardware(e) == e \in {"h264_nvenc", "h264_amf"}

\* get_optimal_encoder, lines 77-81: the candidate list.
encoders(g) ==
    IF g THEN <<"h264_nvenc", "h264_amf", "libx264">> ELSE <<"libx264">>

\* The paths the finally block of job j's build function unlinks, in order:
\* [temp_video, temp_subtitles] (build_video_gpu_accelerated), temp_visual
\* (combine_components). The subtitle file of generate_video_from_script is in
\* no finally block.
Unlinked(j) ==
    IF kind[j] = "gpu" THEN temps[j]
    ELSE {p \in temps[j] : p[1] = "visual"}

UnlinkedBefore(j, p) ==
    IF p[1] = "temp_subs" THEN {q \in Unlinked(j) : q[1] = "temp_video"} ELSE {}

VideoPath(j) == {p \in temps[j] : p[1] \in {"temp_video", "visual"}}
SubsPath(j) == {p \in temps[j] : p[1] \in {"temp_subs", "subs"}}

InFlight(j) == pc[j] \notin {"idle", "done"}

\* The engine exited non-zero in a transcode (lines 389, 422, 264, 305).
TranscodeFailed == {"Exception: Video processing failed",
                    "Exception: Final video creation failed",
                    "Exception: Final mix failed",
                    "CalledProcessError"}

\* ------------------------------------------------------------- environment
\* With one executor thread the environment is unrestricted. With several, the
\* product of the jobs' states is kept explorable by a calm environment: the
\* engine lists every encoder, only the visual pass of the engine fails (by a
\* non-zero exit), an engine that exits 0 leaves no undersized output, no call
\* hangs, a job is retried at most once and the clock ticks at most once.
Calm ==
    /\ clock <= 1
    /\ \A j \in Jobs :
        /\ attempt[j] <= 1
        /\ listing[j] \in {{}, Encoders}
        /\ exc[j] \in {"none", "Exception: Video processing failed",
                      "CalledProcessError"}
        /\ output[j] # {400}
        /\ pc[j] # "hung"
        /\ pc[j] = "sleep" => attempt[j] = 0

Env == workers > 1 => Calm

\* ------------------------------------------------------------------ actions
Tick ==
    /\ clock < MaxClock
    /\ \E j \in Jobs : InFlight(j)
    /\ clock' = clock + 1
    /\ UNCHANGED <<files, output, jobVars, histVars, fnVars, auxVars>>
    /\ Env'

\* api_generate_from_script dispatches build_video_gpu_accelerated to an
\* executor thread (run_in_executor); api_generate_video_from_script awaits
\* generate_video_from_script (lines 38-39: timestamp = int(time.time())), a
\* coroutine without an await of its own, which therefore runs to its end on
\* the event-loop thread: no two of them are in flight together.
Start(j) ==
    /\ pc[j] = "idle"
    /\ \A i \in Jobs : i < j => pc[i] # "idle"
    /\ j <= workers
    /\ \E k \in Kinds :
        /\ k = "orch" => \A i \in Jobs : InFlight(i) => kind[i] # "orch"
        /\ kind' = [kind EXCEPT ![j] = k]
        /\ IF k = "gpu"
           THEN /\ pc' = [pc EXCEPT ![j] = "probe"]
                /\ UNCHANGED temps
           ELSE /\ pc' = [pc EXCEPT ![j] = "prep"]
                /\ temps' = [temps EXCEPT ![j] = {<<"subs", clock>>}]
    /\ UNCHANGED <<clock, files, output, attempt, wake, listing, idx, gpu,
                   encoder, via, exc, result, histVars, fnVars, auxVars>>
    /\ Env'

\* generate_video_from_script, lines 41-82: voice-over, background and music
\* come from collaborators; any of them may raise.
prepare_components(j) ==
    /\ pc[j] = "prep"
    /\ \E ok \in BOOLEAN :
        IF ok THEN /\ pc' = [pc EXCEPT ![j] = "osubs"]
                   /\ UNCHANGED <<exc, result, attempt, wake>>
        ELSE Fail(j, "Exception: Voice file not found")
    /\ UNCHANGED <<clock, files, output, kind, listing, idx, gpu, encoder, via,
                   temps, histVars, fnVars, auxVars>>
    /\ Env'

\* generate_video_from_script, lines 84-96: the subtitle file subs_<timestamp>.ass
\* is written into the output directory.
write_subtitle_file(j) ==
    /\ pc[j] = "osubs"
    /\ \E ok \in BOOLEAN :
        IF ok THEN /\ files' = files \cup SubsPath(j)
                   /\ pc' = [pc EXCEPT ![j] = "probe"]
                   /\ UNCHANGED <<exc, result, attempt, wake>>
        ELSE /\ Fail(j, "FileNotFoundError")
             /\ UNCHANGED files
    /\ UNCHANGED <<clock, output, kind, listing, idx, gpu, encoder, via, temps,
                   histVars, fnVars, auxVars>>
    /\ Env'

\* get_optimal_encoder, line 77, and check_gpu_acceleration: `ffmpeg -encoders`
\* lists L; the check answers whether a hardware encoder is in it, and FALSE
\* when the listing itself raised (timeout, engine missing).
check_gpu_acceleration(j) ==
    /\ pc[j] = "probe"
    /\ \E L \in SUBSET Encoders, raised \in BOOLEAN :
        /\ listing' = [listing EXCEPT ![j] = L]
        /\ gpu' = [gpu EXCEPT ![j] =
                     ~raised /\ ("h264_nvenc" \in L \/ "h264_amf" \in L)]
    /\ idx' = [idx EXCEPT ![j] = 1]
    /\ via' = [via EXCEPT ![j] = "none"]
    /\ pc' = [pc EXCEPT ![j] = "ptest"]
    /\ UNCHANGED <<clock, files, output, kind, attempt, wake, encoder, temps,
                   exc, result, histVars, fnVars, auxVars>>
    /\ Env'

\* get_optimal_encoder returns e to job j. combine_components then names its
\* temporary visual track (line 227) before entering its try block.
ProbeReturn(j, e, how) ==
    /\ encoder' = [encoder EXCEPT ![j] = e]
    /\ via' = [via EXCEPT ![j] = how]
    /\ firstProbe' = IF firstProbe = {} THEN {e} ELSE firstProbe
    /\ pc' = [pc EXCEPT ![j] = "analyze"]
    /\ temps' = [temps EXCEPT ![j] =
                   IF kind[j] = "orch" THEN @ \cup {<<"visual", clock>>} ELSE @]
    /\ UNCHANGED idx

\* get_optimal_encoder, lines 83-98: one pass of the loop: the synthetic test
\* encode of the next candidate. Exit code 0 returns the candidate; a non-zero
\* exit or an exception (timeout=5) moves on; after the last candidate the
\* function returns "libx264" without a test having passed. The engine cannot
\* encode with an encoder it does not list.
test_encoder(j) ==
    /\ pc[j] = "ptest"
    /\ LET e == encoders(gpu[j])[idx[j]] IN
        \E out \in {"exit0", "nonzero", "raised"} :
            /\ out = "exit0" => e \in listing[j]
            /\ IF out = "exit0" THEN ProbeReturn(j, e, "tested")
               ELSE IF idx[j] = Len(encoders(gpu[j]))
                    THEN ProbeReturn(j, "libx264", "fallback")
                    ELSE /\ idx' = [idx EXCEPT ![j] = @ + 1]
                         /\ UNCHANGED <<encoder, via, firstProbe, pc, temps>>
    /\ UNCHANGED <<clock, files, output, kind, attempt, wake, listing, gpu,
                   exc, result, workers, afterHwFailure, fnVars, auxVars>>
    /\ Env'

\* analyze_background_video: ffprobe, then the VideoFileClip fallback, then
\* RetryableError when both fail. build_video_gpu_accelerated calls it before
\* its try block (line 334) and names its temporary files after it (337-338);
\* combine_components calls it inside its try block (line 231).
analyze_background_video(j) ==
    /\ pc[j] = "analyze"
    /\ listing' = [listing EXCEPT ![j] = {}]
    /\ \E out \in {"ffprobe", "reader", "fail"} :
        IF out # "fail"
        THEN /\ pc' = [pc EXCEPT ![j] = "visual"]
             /\ temps' = [temps EXCEPT ![j] =
                   IF kind[j] = "gpu"
                   THEN {<<"temp_video", clock>>, <<"temp_subs", clock>>}
                   ELSE @]
             /\ UNCHANGED <<exc, result, attempt, wake>>
        ELSE /\ UNCHANGED temps
             /\ IF kind[j] = "gpu"
                THEN Raised(j, "RetryableError: Video analysis failed")
                ELSE /\ pc' = [pc EXCEPT ![j] = "cleanup"]
                     /\ exc' = [exc EXCEPT ![j] =
                                  "RetryableError: Video analysis failed"]
                     /\ UNCHANGED <<result, attempt, wake>>
    /\ UNCHANGED <<clock, files, output, kind, idx, gpu, encoder, via,
                   histVars, fnVars, auxVars>>
    /\ Env'

\* An exception inside the try block of the build function: the finally block
\* runs next.
Caught(j, e) ==
    /\ pc' = [pc EXCEPT ![j] = "cleanup"]
    /\ exc' = [exc EXCEPT ![j] = e]

\* build_video_gpu_accelerated, lines 341-389: narration duration and loop count
\* (either may raise), then the visual pass of the engine with timeout=300. A
\* failed or killed engine may leave a partial temp_video behind.
process_background(j) ==
    /\ pc[j] = "visual" /\ kind[j] = "gpu"
    /\ \E out \in {"prepare_raised", "exit0", "nonzero", "timeout"},
          wrote \in BOOLEAN :
        /\ out = "exit0" => wrote
        /\ out = "prepare_raised" => ~wrote
        /\ files' = IF wrote THEN files \cup VideoPath(j) ELSE files
        /\ CASE out = "prepare_raised" ->
                  Caught(j, "ZeroDivisionError")
             [] out = "exit0" ->
                  /\ pc' = [pc EXCEPT ![j] = "subs"]
                  /\ UNCHANGED exc
             [] out = "nonzero" ->
                  Caught(j, "Exception: Video processing failed")
             [] out = "timeout" ->
                  Caught(j, "TimeoutExpired")
    /\ UNCHANGED <<clock, output, kind, attempt, wake, listing, idx, gpu,
                   encoder, via, temps, result, histVars, fnVars, auxVars>>
    /\ Env'

\* build_video_gpu_accelerated, lines 391-394: create_dynamic_subtitles and
\* _create_ass_subtitles write temp_subs; open() may raise.
create_subtitle_file(j) ==
    /\ pc[j] = "subs"
    /\ \E ok \in BOOLEAN :
        IF ok THEN /\ files' = files \cup SubsPath(j)
                   /\ pc' = [pc EXCEPT ![j] = "final"]
                   /\ UNCHANGED exc
        ELSE /\ Caught(j, "FileNotFoundError")
             /\ UNCHANGED files
    /\ UNCHANGED <<clock, output, kind, attempt, wake, listing, idx, gpu,
                   encoder, via, temps, result, histVars, fnVars, auxVars>>
    /\ Env'

\* What an engine run that exits 0 may leave at the output path.
Outputs == {{}} \cup {{s} : s \in OutSizes}

\* build_video_gpu_accelerated, lines 396-422: the final mux, timeout=300.
final_mux(j) ==
    /\ pc[j] = "final"
    /\ \E out \in {"exit0", "nonzero", "timeout"} :
        CASE out = "exit0" ->
               /\ \E o \in Outputs : output' = [output EXCEPT ![j] = o]
               /\ pc' = [pc EXCEPT ![j] = "validate"]
               /\ UNCHANGED exc
          [] out = "nonzero" ->
               /\ Caught(j, "Exception: Final video creation failed")
               /\ UNCHANGED output
          [] out = "timeout" ->
               /\ Caught(j, "TimeoutExpired")
               /\ UNCHANGED output
    /\ UNCHANGED <<clock, files, kind, attempt, wake, listing, idx, gpu,
                   encoder, via, temps, result, histVars, fnVars, auxVars>>
    /\ Env'

\* build_video_gpu_accelerated, line 425: the output is accepted when it exists
\* and is not smaller than 1000 bytes.
output_valid(o) == o # {} /\ \A s \in o : ~(s < MinOutputSize)

\* build_video_gpu_accelerated, lines 424-434: verify the output, then return.
verify_output(j) ==
    /\ pc[j] = "validate"
    /\ IF output_valid(output[j])
       THEN Caught(j, "none")
       ELSE Caught(j, "Exception: Output video is invalid or too small")
    /\ UNCHANGED <<clock, files, output, kind, attempt, wake, listing, idx, gpu,
                   encoder, via, temps, result, histVars, fnVars, auxVars>>
    /\ Env'

\* combine_components, lines 242-264: loop count (may raise), then the visual
\* pass run with check=True and no timeout: a non-zero exit raises
\* CalledProcessError, an engine that never exits blocks the call for ever.
combine_visual(j) ==
    /\ pc[j] = "visual" /\ kind[j] = "orch"
    /\ \E out \in {"prepare_raised", "exit0", "nonzero", "hangs"},
          wrote \in BOOLEAN :
        /\ out = "exit0" => wrote
        /\ out \in {"prepare_raised", "hangs"} => ~wrote
        /\ files' = IF wrote THEN files \cup VideoPath(j) ELSE files
        /\ CASE out = "prepare_raised" ->
                  Caught(j, "ZeroDivisionError")
             [] out = "exit0" ->
                  /\ pc' = [pc EXCEPT ![j] = "mix"]
                  /\ UNCHANGED exc
             [] out = "nonzero" ->
                  Caught(j, "CalledProcessError")
             [] out = "hangs" ->
                  /\ pc' = [pc EXCEPT ![j] = "hung"]
                  /\ UNCHANGED exc
    /\ UNCHANGED <<clock, output, kind, attempt, wake, listing, idx, gpu,
                   encoder, via, temps, result, histVars, fnVars, auxVars>>
    /\ Env'

\* combine_components, lines 266-307: the final mix, timeout=600; exit code 0
\* returns output_path.
combine_final(j) ==
    /\ pc[j] = "mix"
    /\ \E out \in {"exit0", "nonzero", "timeout"} :
        CASE out = "exit0" ->
               /\ \E o \in Outputs : output' = [output EXCEPT ![j] = o]
               /\ Caught(j, "none")
          [] out = "nonzero" ->
               /\ Caught(j, "Exception: Final mix failed")
               /\ UNCHANGED output
          [] out = "timeout" ->
               /\ Caught(j, "TimeoutExpired")
               /\ UNCHANGED output
    /\ UNCHANGED <<clock, files, kind, attempt, wake, listing, idx, gpu,
                   encoder, via, temps, result, histVars, fnVars, auxVars>>
    /\ Env'

\* The finally blocks (lines 442-446 and 309-311): every temporary file that
\* exists is unlinked, in order; an unlink that raises (PermissionError) leaves
\* the block at once and replaces the exception in flight. Then the decorators
\* see the outcome.
cleanup(j) ==
    /\ pc[j] = "cleanup"
    /\ \/ /\ files' = files \ Unlinked(j)
          /\ IF exc[j] = "none" THEN Succeed(j) ELSE Raised(j, exc[j])
       \/ \E p \in Unlinked(j) \cap files :
          /\ files' = files \ UnlinkedBefore(j, p)
          /\ Raised(j, "PermissionError")
    /\ UNCHANGED <<clock, output, kind, listing, idx, gpu, encoder, via, temps,
                   histVars, fnVars, auxVars>>
    /\ Env'

\* A variant that resumes a failed build at the analysis instead of calling the
\* function again from its start.
retry_resumes(j) ==
    /\ pc[j] = "sleep"
    /\ clock >= wake[j]
    /\ attempt' = [attempt EXCEPT ![j] = @ + 1]
    /\ pc' = [pc EXCEPT ![j] = "analyze"]
    /\ exc' = [exc EXCEPT ![j] = "none"]
    /\ temps' = [temps EXCEPT ![j] = {}]
    /\ afterHwFailure' = [afterHwFailure EXCEPT ![j] =
                             IsHardware(encoder[j]) /\ exc[j] \in TranscodeFailed]
    /\ UNCHANGED <<clock, files, output, kind, wake, listing, idx, gpu, encoder,
                   via, result, workers, firstProbe, fnVars, auxVars>>
    /\ Env'

\* retry_with_backoff, lines 62-63 and the next loop pass: time.sleep returns
\* once wait_time seconds have passed, and the function is called again.
retry(j) ==
    /\ pc[j] = "sleep"
    /\ clock >= wake[j]
    /\ attempt' = [attempt EXCEPT ![j] = @ + 1]
    /\ pc' = [pc EXCEPT ![j] = "probe"]
    /\ exc' = [exc EXCEPT ![j] = "none"]
    /\ temps' = [temps EXCEPT ![j] = {}]
    /\ afterHwFailure' = [afterHwFailure EXCEPT ![j] =
                             IsHardware(encoder[j]) /\ exc[j] \in TranscodeFailed]
    /\ UNCHANGED <<clock, files, output, kind, wake, listing, idx, gpu, encoder,
                   via, result, workers, firstProbe, fnVars, auxVars>>
    /\ Env'

Next ==
    \/ Tick
    \/ \E j \in Jobs : Start(j)
    \/ \E j \in Jobs : prepare_components(j)
    \/ \E j \in Jobs : write_subtitle_file(j)
    \/ \E j \in Jobs : check_gpu_acceleration(j)
    \/ \E j \in Jobs : test_encoder(j)
    \/ \E j \in Jobs : analyze_background_video(j)
    \/ \E j \in Jobs : process_background(j)
    \/ \E j \in Jobs : create_subtitle_file(j)
    \/ \E j \in Jobs : final_mux(j)
    \/ \E j \in Jobs : verify_output(j)
    \/ \E j \in Jobs : combine_visual(j)
    \/ \E j \in Jobs : combine_final(j)
    \/ \E j \in Jobs : cleanup(j)
    \/ \E j \in Jobs : retry(j)

Spec == Init /\ [][Next]_vars

\* ----------------------------------------------------------------- claims
\* C1: when the selected encoder is hardware-accelerated and the transcode
\* exits non-zero, exactly one further attempt follows and it uses libx264:
\* (a) the attempt made after such a failure runs with libx264, (b) a failure
\* of that attempt is not retried again, (c) no job ends on a hardware
\* transcode failure that was not followed by the fallback attempt.
C1_ExactlyOneSoftwareFallback ==
    \A j \in Jobs :
        /\ (afterHwFailure[j] /\ pc[j] \in {"analyze", "visual", "subs", "final",
                                            "validate", "cleanup"})
              => encoder[j] = "libx264"
        /\ afterHwFailure[j] => pc[j] # "sleep"
        /\ (pc[j] = "done" /\ kind[j] = "gpu" /\ exc[j] \in TranscodeFailed)
              => ~IsHardware(encoder[j])

\* C2: on every exit path of the build call, once it has returned or raised,
\* none of the job's temporary visual and subtitle files exists any more
\* (a file whose unlink the file system refused is not held against the claim).
C2_TempFilesRemovedOnExit ==
    \A j \in Jobs :
        (pc[j] = "done" /\ exc[j] # "NonRetryableError: Permission denied")
            => temps[j] \cap files = {}

\* C3: a build is reported successful only if the output file exists and its
\* size is at least the sanity threshold.
C3_SuccessOnlyWithValidOutput ==
    \A j \in Jobs :
        result[j] = "success"
            => output[j] # {} /\ \A s \in output[j] : s >= MinOutputSize

\* C6: a second call of the probe returns the encoder the first call returned
\* and starts no engine process: once a probe has returned, no synthetic test
\* is pending anywhere and every job holds the first probe's encoder.
C6_ProbeMemoized ==
    \A j \in Jobs :
        /\ firstProbe # {} => pc[j] # "ptest"
        /\ via[j] # "none" => {encoder[j]} = firstProbe

\* C7: with concurrent jobs the probe is computed at most once: never two jobs
\* inside the probe together, no probe once one has returned, and all jobs
\* observe the same encoder.
C7_ProbeOncePerProcess ==
    LET probing == {j \in Jobs : pc[j] = "ptest"} IN
        /\ Cardinality(probing) <= 1
        /\ firstProbe # {} => probing = {}
        /\ \A i, j \in Jobs :
              (via[i] # "none" /\ via[j] # "none") => encoder[i] = encoder[j]

\* C8: no two build jobs in flight at the same time use the same temporary
\* file path.
C8_TempPathsDisjoint ==
    \A i, j \in Jobs :
        (i # j /\ InFlight(i) /\ InFlight(j)) => temps[i] \cap temps[j] = {}

\* C9: the probe never returns an encoder that is absent from the engine's
\* listing or whose synthetic test did not exit with code 0.
C9_ProbeReturnsListedAndTested ==
    \A j \in Jobs :
        pc[j] = "analyze" => encoder[j] \in listing[j] /\ via[j] = "tested"

\* C10: if no candidate passes the synthetic test the probe raises
\* EncoderUnavailableError: the job is failed with that error at once, without
\* a transcode and without a retry.
C10_NoEncoderIsFatal ==
    \A j \in Jobs :
        via[j] = "fallback"
            => /\ pc[j] = "done"
               /\ result[j] = "failed"
               /\ exc[j] = "EncoderUnavailableError"
               /\ attempt[j] = 0

\* ------------------------------------------------ diagnostics and threads
\* The exceptions that carry the engine's captured output: the messages built
\* from result.stderr (lines 389, 422, 305), CalledProcessError and
\* TimeoutExpired, which subprocess.run fills with the captured streams.
carries_diagnostics(e) == e \in TranscodeFailed \cup {"TimeoutExpired"}

\* generate_video_from_script is awaited by its request handler and has no
\* await of its own: its body runs on the event-loop thread. The build of
\* api_generate_from_script runs on an executor thread.
on_event_loop(j) == kind[j] = "orch"

\* Positions whose next step is a blocking subprocess.run of ffmpeg or ffprobe,
\* or that are inside one.
BlockingEngineCall == {"probe", "ptest", "analyze", "visual", "final", "mix",
                       "hung"}

\* C11: a build is run again only after the failure of an attempt that used a
\* hardware encoder, and only once: no retry is pending after an attempt with
\* the software encoder or after a second attempt, and there is no third
\* attempt.
C11_RerunOnlyAfterHardwareFailure ==
    \A j \in Jobs :
        /\ pc[j] = "sleep" => IsHardware(encoder[j]) /\ attempt[j] = 0
        /\ attempt[j] <= 1

\* C12: after an analysis failure (prober and clip reader both failed) the
\* build function is not called again: no step takes a job whose error is the
\* analysis failure back to the start of the build.
C12_AnalysisFailureIsFatal ==
    [][\A j \in Jobs :
          exc[j] = "RetryableError: Video analysis failed"
              => pc'[j] # "probe"]_vars

\* C13: a timed-out engine invocation is terminal: while TimeoutExpired is the
\* job's error the job is only cleaning up or done, never waiting for a retry.
C13_TimeoutIsTerminal ==
    \A j \in Jobs :
        exc[j] = "TimeoutExpired" => pc[j] \in {"cleanup", "done"}

\* C14: a failed removal of a temporary file never changes the outcome: leaving
\* the finally block, a job without an exception in flight reports success and
\* a job with one surfaces that exception (as its decorators pass it on).
C14_CleanupFailureOnlyLogged ==
    [][\A j \in Jobs :
          (pc[j] = "cleanup" /\ pc'[j] # "cleanup")
              => IF exc[j] = "none" THEN result'[j] = "success"
                 ELSE exc'[j] = safe_file_operation(exc[j])]_vars

\* C15: every engine launch is bounded by a timeout: no build call is ever
\* blocked in an engine invocation that nothing ends.
C15_EveryEngineLaunchTimesOut ==
    \A j \in Jobs : pc[j] # "hung"

\* C16: when a build call ends after a transcoder failure of its last attempt,
\* the caller receives a failure that carries the captured diagnostics.
C16_FinalFailureCarriesDiagnostics ==
    [][\A j \in Jobs :
          (pc[j] = "cleanup" /\ carries_diagnostics(exc[j]) /\ pc'[j] = "done")
              => result'[j] = "failed" /\ carries_diagnostics(exc'[j])]_vars

\* C17: no build that runs on the event-loop thread ever makes a blocking
\* engine invocation.
C17_EventLoopNeverBlocks ==
    \A j \in Jobs :
        on_event_loop(j) => pc[j] \notin BlockingEngineCall

\* C20: a first attempt that used a tested hardware encoder and whose output
\* validated ends the call as a success of that first attempt, without a retry.
C20_FirstTrySuccessRunsOnce ==
    [][\A j \in Jobs :
          (kind[j] = "gpu" /\ attempt[j] = 0 /\ pc[j] = "cleanup"
           /\ exc[j] = "none" /\ IsHardware(encoder[j]) /\ via[j] = "tested"
           /\ pc'[j] # "cleanup")
              => pc'[j] = "done" /\ result'[j] = "success"
                 /\ attempt'[j] = 0]_vars

\* ----------------------------------------------------------- stage order
\* The stage of the specification that begins at each position of
\* build_video_gpu_accelerated, numbered as the specification orders them:
\* 1 Analyzing, 2 Reconciling, 3 SubtitleBuilding, 4 EncoderSelecting,
\* 5 FilterBuilding, 6 Transcoding, 7 Validating. Position "visual" holds the
\* filter, the loop count and the engine run of the visual pass.
spec_stage(p) ==
    CASE p \in {"probe", "ptest"} -> 4
      [] p = "analyze" -> 1
      [] p = "subs" -> 3
      [] p \in {"visual", "final"} -> 6
      [] p = "validate" -> 7
      [] OTHER -> 0

\* The position that follows each position of build_video_gpu_accelerated when
\* its step completes (lines 331, 334, 341-389, 391-394, 396-422, 424-434).
next_stage(p) ==
    CASE p = "probe" -> {"ptest"}
      [] p = "ptest" -> {"analyze"}
      [] p = "analyze" -> {"visual"}
      [] p = "visual" -> {"subs"}
      [] p = "subs" -> {"final"}
      [] p = "final" -> {"validate"}
      [] p = "validate" -> {"cleanup"}
      [] OTHER -> {}

\* Where an attempt goes when an exception ends it at position p: to the
\* finally block from inside the try block, to the decorators otherwise.
attempt_ends(p) ==
    CASE p = "analyze" -> {"sleep", "done"}
      [] p \in {"visual", "subs", "final"} -> {"cleanup"}
      [] p = "cleanup" -> {"sleep", "done"}
      [] OTHER -> {}

C27_AtMostNPlusOneAttempts ==
    [][\A j \in Jobs :
          kind'[j] = "gpu"
              => /\ attempt'[j] <= max_retries
                 /\ attempt'[j] \in {attempt[j], attempt[j] + 1}
                 /\ attempt'[j] = attempt[j] + 1
                       => /\ pc[j] = "sleep" /\ exc[j] # "none"
                          /\ exc[j] \notin NonRetryableError
                 /\ pc'[j] = "sleep"
                       => /\ attempt'[j] < max_retries
                          /\ exc'[j] \notin NonRetryableError
                 /\ pc[j] = "done" => pc'[j] = "done"
                 /\ (pc[j] # "done" /\ pc'[j] = "done" /\ result'[j] = "failed")
                       => /\ exc'[j] # "none"
                          /\ \/ attempt'[j] = max_retries
                             \/ exc'[j] \in NonRetryableError]_vars

\* C27 witness: the third attempt failed and its exception was raised.
C27_Witness ==
    \E j \in Jobs :
        /\ kind[j] = "gpu" /\ pc[j] = "done" /\ result[j] = "failed"
        /\ attempt[j] = max_retries /\ exc[j] \in TranscodeFailed

\* ------------------------------------------------- concurrent build calls
\* NumJobs executor threads, each running one build call, all interleavings.
\* The environment of this specification is calm (see Env), so every run of
\* SpecConcurrent is a run of the unrestricted program and a state it reaches
\* is a state the program reaches.
InitConcurrent ==
    /\ InitPipeline
    /\ AuxIdle
    /\ workers = NumJobs
    /\ call = NoCall
    /\ ret = <<>>

SpecConcurrent == InitConcurrent /\ [][Next]_vars

\* ------------------------------------------------------------ pure functions
\* Times are exact rationals counted in ticks. One second is 770 ticks, the
\* least common multiple of the denominators of the three word durations
\* 1/2.2 = 5/11, 1/2.5 = 2/5 and 1/2.8 = 5/14 s. The program computes the same
\* values in binary floating point; rounding is not modelled.
TicksPerSecond == 11 * 5 * 14
HalfSecond == TicksPerSecond \div 2
Durations == {h * HalfSecond : h \in 1..MaxHalfSeconds}
Niches == {"motivation", "facts", "finance", "other"}

\* create_dynamic_subtitles, lines 164-177: words_per_second is 2.2 for
\* "motivation", 2.8 for "facts", else 2.5; word_duration = 1.0 / it.
word_duration(niche) ==
    CASE niche = "motivation" -> (TicksPerSecond * 10) \div 22
      [] niche = "facts" -> (TicksPerSecond * 10) \div 28
      [] OTHER -> (TicksPerSecond * 10) \div 25

chunk_size == 4

\* A variant whose chunk always ends chunk_size words after its first word.
subtitle_chunk_full(i, n, niche, duration) ==
    LET len == Min(chunk_size, n - i) IN
    [first |-> i + 1,
     last |-> i + len,
     start |-> i * word_duration(niche),
     end |-> Min((i + chunk_size) * word_duration(niche), duration)]

\* create_dynamic_subtitles, lines 182-194: the chunk that begins at word index
\* i (0-based) of n words: its words are i+1..i+len, start = i * word_duration,
\* end = min((i + len(chunk_words)) * word_duration, duration).
subtitle_chunk(i, n, niche, duration) ==
    LET len == Min(chunk_size, n - i) IN
    [first |-> i + 1,
     last |-> i + len,
     start |-> i * word_duration(niche),
     end |-> Min((i + len) * word_duration(niche), duration)]

\* create_dynamic_subtitles: [] for a script without words, else one chunk per
\* i in range(0, len(words), chunk_size). The script is given by its number of
\* words n.
create_dynamic_subtitles(n, niche, duration) ==
    IF n = 0 THEN <<>>
    ELSE [k \in 1..((n + chunk_size - 1) \div chunk_size) |->
            subtitle_chunk((k - 1) * chunk_size, n, niche, duration)]

\* Lines 362 and 244: loop_count = int(target / duration) + 1.
stream_loop_no_headroom(target, d) == target \div d
\* A variant that rounds the quotient up before adding the headroom loop.
stream_loop_ceil(target, d) == ((target + d - 1) \div d) + 1
stream_loop(target, d) == (target \div d) + 1

\* The 1 second added to the trim length at line 378 ("-t", voiceover + 1).
BufferSeconds == 1

\* A variant that cuts the visual track at the target in both entry points.
reconcile_no_buffer(entry, target, d) ==
    IF d < target /\ d = 0 THEN [raised |-> "ZeroDivisionError"]
    ELSE [loops |-> IF d < target THEN stream_loop(target, d) ELSE 0,
          trim |-> target]

\* Lines 360-378 (build_video_gpu_accelerated) and 242-256
\* (combine_components): the input loop option and the -t trim length of the
\* visual pass. loops = 0 stands for no -stream_loop option. A background of
\* duration 0 raises ZeroDivisionError.
reconcile(entry, target, d) ==
    IF d < target /\ d = 0 THEN [raised |-> "ZeroDivisionError"]
    ELSE [loops |-> IF d < target THEN stream_loop(target, d) ELSE 0,
          trim |-> IF entry = "gpu"
                   THEN target + BufferSeconds * TicksPerSecond
                   ELSE target]

\* The visual track the engine writes for that command: the background played
\* loops times (once without the option), cut at the trim length. (ffmpeg's
\* -stream_loop N replays the input N more times; counting N plays in all is
\* the shorter, hence the safe, reading.)
visual_duration(r, d) ==
    Min((IF r.loops = 0 THEN 1 ELSE r.loops) * d, r.trim)

\* Scenario A of the specification: narration 20.0 s, background 8.0 s.
ScenarioA == [target |-> 20 * TicksPerSecond, background |-> 8 * TicksPerSecond]

\* Background files: what a readable file holds, and the unreadable file, which
\* neither path can open and of which nothing is known (a zero-valued asset is
\* what it would be mistaken for).
Unreadable == [duration |-> 0, width |-> 0, height |-> 0, audio |-> FALSE]
BackgroundFiles ==
    [duration : {HalfSecond, 2 * TicksPerSecond}, width : {1080, 1920},
     height : {1080, 1920}, audio : BOOLEAN] \cup {Unreadable}

\* analyze_background_video, lines 103-137: what the ffprobe path can do:
\* return the analysis ("ok"), or raise inside the try block: non-zero exit
\* (line 112), timeout=30 or missing binary (line 110), no video stream (line
\* 118), a field that does not parse (lines 114, 121-129).
ProbeOutcomes == {"ok", "nonzero", "timeout", "no_video_stream", "bad_field"}
\* Lines 143-156: VideoFileClip opens the file, or raises.
ReaderOutcomes == {"ok", "raises"}

\* The dictionary either path builds from the file (lines 120-134, 145-154).
analysis(f, path) ==
    [source |-> path, duration |-> f.duration, width |-> f.width,
     height |-> f.height, is_portrait |-> f.height > f.width,
     has_audio |-> f.audio]

\* A variant that answers default values when both paths fail.
analyze_or_defaults(f, probe, reader) ==
    IF probe = "ok" THEN analysis(f, "ffprobe")
    ELSE IF reader = "ok" THEN analysis(f, "reader")
    ELSE analysis(Unreadable, "default")

\* analyze_background_video, lines 100-156: the ffprobe result; on any exception
\* of that path the VideoFileClip result; RetryableError when that raises too.
analyze(f, probe, reader) ==
    IF probe = "ok" THEN analysis(f, "ffprobe")
    ELSE IF reader = "ok" THEN analysis(f, "reader")
    ELSE [raised |-> "RetryableError: Video analysis failed"]

\* ------------------------------------------------------ filter expression
\* Characters of a subtitle path: an ordinary character, the drive or stream
\* colon, the two separators.
PathChars == {"D", ":", "\\", "/"}
Paths == UNION {[1..n -> PathChars] : n \in 0..MaxPathLen}

\* str.replace('\\', '/')
replace_backslash(p) == [k \in 1..Len(p) |-> IF p[k] = "\\" THEN "/" ELSE p[k]]

\* str.replace(':', '\\:')
replace_colon(p) ==
    LET out[k \in 0..Len(p)] ==
            IF k = 0 THEN <<>>
            ELSE out[k - 1] \o (IF p[k] = ":" THEN <<"\\", ":">> ELSE <<p[k]>>)
    IN out[Len(p)]

\* A variant that escapes the colons first and converts the separators after.
subtitle_path_colons_first(p) == replace_backslash(replace_colon(p))

\* Lines 401-403 and 268: the subtitle path as the filter expression holds it.
subtitle_path_str(p) == replace_colon(replace_backslash(p))

\* quality_presets, lines 26-31: the frame size of each preset.
quality_presets ==
    [ultra |-> <<1080, 1920>>, high |-> <<1080, 1920>>,
     medium |-> <<720, 1280>>, fast |-> <<540, 960>>]

\* A variant that takes the crop width from the inverse aspect ratio.
video_filter_wide(width, height, quality) ==
    IF ~(height > width)
    THEN LET crop_width == (height * 16) \div 9
             crop_x == (width - crop_width) \div 2
         IN [crop |-> <<crop_width, height, crop_x, 0>>,
             scale |-> quality_presets[quality]]
    ELSE [scale |-> quality_presets[quality]]

\* Lines 345-354 and 233-240: is_portrait is height > width (line 134); a
\* frame that is not portrait is cropped to crop=w:h:x:y and scaled, a portrait
\* frame is scaled only.
video_filter(width, height, quality) ==
    IF ~(height > width)
    THEN LET crop_width == (height * 9) \div 16
             crop_x == (width - crop_width) \div 2
         IN [crop |-> <<crop_width, height, crop_x, 0>>,
             scale |-> quality_presets[quality]]
    ELSE [scale |-> quality_presets[quality]]

\* ------------------------------------------------------------ subtitle file
MinuteTicks == 60 * TicksPerSecond
HourTicks == 60 * MinuteTicks

\* _seconds_to_ass_time, lines 493-496: hours = int(seconds // 3600),
\* minutes = int((seconds % 3600) // 60), secs = seconds % 60, rendered as
\* {hours}:{minutes:02d}:{secs:05.2f}. The format rounds secs to the nearest
\* hundredth; SS and CC are the digits before and after the point.
seconds_to_ass_time(t) ==
    LET hours == t \div HourTicks
        minutes == (t % HourTicks) \div MinuteTicks
        secs == t % MinuteTicks
        hundredths == (2 * secs * 100 + TicksPerSecond) \div (2 * TicksPerSecond)
    IN [H |-> hours, MM |-> minutes,
        SS |-> hundredths \div 100, CC |-> hundredths % 100]

\* chunk["text"].replace("\n", "\\N"), line 484.
escape_newlines(text) ==
    [k \in 1..Len(text) |-> IF text[k] = "\n" THEN "\\N" ELSE text[k]]

\* _create_ass_subtitles, lines 468-489: the style header block, then one
\* Dialogue line per chunk.
create_ass_subtitles(chunks) ==
    <<[line |-> "header"]>> \o
    [k \in 1..Len(chunks) |->
        [line |-> "Dialogue",
         start |-> seconds_to_ass_time(chunks[k].start),
         end |-> seconds_to_ass_time(chunks[k].end),
         text |-> escape_newlines(chunks[k].text)]]

\* Chunk times drawn: 0 s, 1.5 s, 3 ticks (under 4 ms) before the first full
\* minute, one tick before the first full hour.
AssTimes == {0, 3 * HalfSecond, MinuteTicks - 3, HourTicks - 1}
AssTexts == {<<>>, <<"w">>, <<"w", "\n", "w">>}
AssChunks ==
    {c \in [start : AssTimes, end : AssTimes, text : AssTexts] :
        c.start <= c.end}
AssChunkLists == {<<>>} \cup {<<c>> : c \in AssChunks}
                 \cup {<<c, d>> : c \in AssChunks, d \in AssChunks}

InitFunctions ==
    /\ InitPipeline
    /\ AuxIdle
    /\ workers = 0
    /\ ret = <<>>
    /\ call \in
        {[fn |-> "create_dynamic_subtitles", words |-> n, niche |-> x,
          duration |-> t] : n \in 0..MaxWords, x \in Niches, t \in Durations}
        \cup
        {[fn |-> "reconcile", entry |-> e, target |-> t, background |-> d] :
            e \in {"gpu", "combine"}, t \in Durations,
            d \in Durations \cup {0}}
        \cup
        {[fn |-> "reconcile", entry |-> e, target |-> ScenarioA.target,
          background |-> ScenarioA.background] : e \in {"gpu", "combine"}}
        \cup
        {c \in [fn : {"analyze"}, file : BackgroundFiles,
                probe : ProbeOutcomes, reader : ReaderOutcomes] :
            c.file = Unreadable => c.probe # "ok" /\ c.reader # "ok"}
        \cup
        [fn : {"subtitle_path_str"}, path : Paths]
        \cup
        [fn : {"video_filter"}, width : 1..MaxDim, height : 1..MaxDim,
         quality : DOMAIN quality_presets]
        \cup
        [fn : {"create_ass_subtitles"}, chunks : AssChunkLists]

call_create_dynamic_subtitles ==
    /\ call.fn = "create_dynamic_subtitles" /\ ret = <<>>
    /\ ret' = <<create_dynamic_subtitles(call.words, call.niche, call.duration)>>
    /\ UNCHANGED <<call, pipeVars, auxVars>>

call_reconcile ==
    /\ call.fn = "reconcile" /\ ret = <<>>
    /\ ret' = <<reconcile(call.entry, call.target, call.background)>>
    /\ UNCHANGED <<call, pipeVars, auxVars>>

call_analyze ==
    /\ call.fn = "analyze" /\ ret = <<>>
    /\ ret' = <<analyze(call.file, call.probe, call.reader)>>
    /\ UNCHANGED <<call, pipeVars, auxVars>>

call_subtitle_path_str ==
    /\ call.fn = "subtitle_path_str" /\ ret = <<>>
    /\ ret' = <<subtitle_path_str(call.path)>>
    /\ UNCHANGED <<call, pipeVars, auxVars>>

call_video_filter ==
    /\ call.fn = "video_filter" /\ ret = <<>>
    /\ ret' = <<video_filter(call.width, call.height, call.quality)>>
    /\ UNCHANGED <<call, pipeVars, auxVars>>

call_create_ass_subtitles ==
    /\ call.fn = "create_ass_subtitles" /\ ret = <<>>
    /\ ret' = <<create_ass_subtitles(call.chunks)>>
    /\ UNCHANGED <<call, pipeVars, auxVars>>

NextFunctions ==
    \/ call_create_dynamic_subtitles
    \/ call_reconcile
    \/ call_analyze
    \/ call_subtitle_path_str
    \/ call_video_filter
    \/ call_create_ass_subtitles

SpecFunctions == InitFunctions /\ [][NextFunctions]_vars

\* C4: for every script with at least one word and every duration > 0 the
\* chunks start at 0, each chunk ends where the next one starts, and the last
\* chunk ends no later than the duration.
C4_ChunksContiguous ==
    (call.fn = "create_dynamic_subtitles" /\ ret # <<>> /\ call.words > 0)
        => LET c == ret[1] IN
            /\ c[1].start = 0
            /\ \A k \in 1..(Len(c) - 1) : c[k].end = c[k + 1].start
            /\ c[Len(c)].end <= call.duration

\* C5: for every target duration > 0 and every background duration, the visual
\* track the reconcile step produces lasts at least the target duration.
C5_VisualCoversTarget ==
    (call.fn = "reconcile" /\ ret # <<>> /\ "raised" \notin DOMAIN ret[1])
        => visual_duration(ret[1], call.background) >= call.target

\* C5 witness: a background shorter than the target was looped and the track
\* was cut at the trim length.
C5_Witness ==
    /\ call.fn = "reconcile" /\ ret # <<>>
    /\ "raised" \notin DOMAIN ret[1]
    /\ call.background < call.target
    /\ ret[1].loops >= 2
    /\ visual_duration(ret[1], call.background) = ret[1].trim

\* C18: analyze returns the prober's result when the probe succeeds, the clip
\* reader's result when the probe fails and the reader succeeds, and raises
\* only when both fail; what it returns is never zero-valued, and a file
\* without an audio stream gives has_audio = FALSE, not an error.
C18_AnalyzeFallbackChain ==
    (call.fn = "analyze" /\ ret # <<>>)
        => LET a == ret[1]
               raised == "raised" \in DOMAIN a IN
            /\ call.probe = "ok" => ~raised /\ a.source = "ffprobe"
            /\ (call.probe # "ok" /\ call.reader = "ok")
                  => ~raised /\ a.source = "reader"
            /\ raised <=> (call.probe # "ok" /\ call.reader # "ok")
            /\ ~raised => /\ a.duration > 0 /\ a.width > 0 /\ a.height > 0
                          /\ a.has_audio = call.file.audio

\* C18 witness: the probe failed, the clip reader answered, and the file has
\* no audio stream.
C18_Witness ==
    /\ call.fn = "analyze" /\ ret # <<>>
    /\ call.probe = "timeout" /\ call.reader = "ok"
    /\ ~call.file.audio
    /\ "raised" \notin DOMAIN ret[1]
    /\ ret[1].source = "reader" /\ ~ret[1].has_audio

C22_LoopCountIsCeilPlusOne ==
    (call.fn = "reconcile" /\ ret # <<>> /\ "raised" \notin DOMAIN ret[1])
        => LET t == call.target
               d == call.background IN
            IF d >= t THEN ret[1].loops = 0 /\ ret[1].trim = t
            ELSE ret[1].loops = ((t + d - 1) \div d) + 1

\* C22 as amended: a background at least as long as the target is not looped;
\* a shorter one gets the loop count floor(target / d) + 1, which is
\* ceil(target / d) + 1 only when the target is an exact multiple of d and
\* ceil(target / d) otherwise; the trim length is the target in
\* combine_components and the target plus 1 s in build_video_gpu_accelerated.
C22_LoopCountIsFloorPlusOne ==
    (call.fn = "reconcile" /\ ret # <<>> /\ "raised" \notin DOMAIN ret[1])
        => LET t == call.target
               d == call.background
               ceil == (t + d - 1) \div d IN
            /\ d >= t => ret[1].loops = 0
            /\ d < t => /\ ret[1].loops = (t \div d) + 1
                        /\ ret[1].loops = IF t % d = 0 THEN ceil + 1 ELSE ceil
            /\ ret[1].trim - t = IF call.entry = "gpu" THEN TicksPerSecond ELSE 0

\* C22 witness: Scenario A through combine_components: 20 s is no multiple of
\* 8 s and the loop count is 3 = ceil(20 / 8).
C22_Witness ==
    /\ call.fn = "reconcile" /\ ret # <<>>
    /\ call.entry = "combine"
    /\ call.target = ScenarioA.target /\ call.background = ScenarioA.background
    /\ call.target % call.background # 0
    /\ ret[1].loops = 3

\* Scenario B of the specification: 8 words at 2.5 words/s, a narration that
\* lasts at least the 3.2 s the words take.
ScenarioB(c) ==
    /\ c.fn = "create_dynamic_subtitles" /\ c.words = 8
    /\ c.niche \notin {"motivation", "facts"}
    /\ 10 * c.duration >= 32 * TicksPerSecond

\* C23 as claimed: the chunk that begins at word index i starts at
\* i / wordsPerSecond and ends at min((i + chunkSize) / wordsPerSecond,
\* duration), also when it holds fewer than chunkSize words; Scenario B gives
\* the chunks 0.0-1.6 and 1.6-3.2.
C23_ChunkEndsAfterChunkSizeWords ==
    (call.fn = "create_dynamic_subtitles" /\ ret # <<>>)
        => LET c == ret[1]
               wd == word_duration(call.niche) IN
            /\ \A k \in 1..Len(c) :
                  LET i == (k - 1) * chunk_size IN
                  /\ c[k].start = i * wd
                  /\ c[k].end = Min((i + chunk_size) * wd, call.duration)
            /\ ScenarioB(call)
                  => /\ Len(c) = 2
                     /\ c[1].start = 0
                     /\ 10 * c[1].end = 16 * TicksPerSecond
                     /\ c[2].start = c[1].end
                     /\ 10 * c[2].end = 32 * TicksPerSecond

\* C23 as amended: the chunk that begins at word index i starts at
\* i / wordsPerSecond and ends at min((i + number of words in the chunk) /
\* wordsPerSecond, duration), which is (i + chunkSize) / wordsPerSecond only
\* for a full chunk; Scenario B gives the chunks 0.0-1.6 and 1.6-3.2.
C23_ChunkEndsAfterItsWords ==
    (call.fn = "create_dynamic_subtitles" /\ ret # <<>>)
        => LET c == ret[1]
               wd == word_duration(call.niche) IN
            /\ \A k \in 1..Len(c) :
                  LET i == (k - 1) * chunk_size
                      words == c[k].last - c[k].first + 1 IN
                  /\ words = IF k < Len(c) THEN chunk_size
                             ELSE call.words - i
                  /\ c[k].start = i * wd
                  /\ c[k].end = Min((i + words) * wd, call.duration)
            /\ ScenarioB(call)
                  => /\ Len(c) = 2
                     /\ c[1].start = 0
                     /\ 10 * c[1].end = 16 * TicksPerSecond
                     /\ c[2].start = c[1].end
                     /\ 10 * c[2].end = 32 * TicksPerSecond

\* C23 witness: six words at 2.5 words/s in a 4 s narration: the last chunk
\* holds two words and ends after the sixth word, at 2.4 s.
C23_Witness ==
    /\ call.fn = "create_dynamic_subtitles" /\ ret # <<>>
    /\ call.words = 6 /\ call.niche = "finance"
    /\ call.duration = 4 * TicksPerSecond
    /\ Len(ret[1]) = 2
    /\ 10 * ret[1][2].end = 24 * TicksPerSecond

\* C24: in the subtitle path as the filter expression holds it, every colon
\* of the original path is there and is immediately preceded by an escaping
\* backslash, and there is no backslash other than those escapes.
C24_PathColonsEscaped ==
    (call.fn = "subtitle_path_str" /\ ret # <<>>)
        => LET r == ret[1]
               colons(q) == {k \in 1..Len(q) : q[k] = ":"} IN
            /\ Cardinality(colons(r)) = Cardinality(colons(call.path))
            /\ \A k \in 1..Len(r) :
                  /\ r[k] = ":" => k > 1 /\ r[k - 1] = "\\"
                  /\ r[k] = "\\" => k < Len(r) /\ r[k + 1] = ":"

\* C24 witness: a path with a colon and a backslash was rendered.
C24_Witness ==
    /\ call.fn = "subtitle_path_str" /\ ret # <<>>
    /\ call.path = <<"D", ":", "\\">>
    /\ ret[1] = <<"D", "\\", ":", "/">>

\* C25: a landscape frame is cropped to its full height and the width
\* int(height * 9/16), horizontally centered (left offset (width - cropWidth)
\* div 2, the two margins equal up to one pixel), inside the frame, and then
\* scaled to the preset size; a portrait frame is scaled without a crop.
C25_CropCenteredInsideFrame ==
    (call.fn = "video_filter" /\ ret # <<>>)
        => LET f == ret[1]
               w == call.width
               h == call.height IN
            /\ f.scale = quality_presets[call.quality]
            /\ h > w => "crop" \notin DOMAIN f
            /\ w > h =>
                /\ "crop" \in DOMAIN f
                /\ LET cw == f.crop[1]
                       x == f.crop[3] IN
                    /\ 16 * cw <= 9 * h /\ 9 * h < 16 * (cw + 1)
                    /\ f.crop[2] = h /\ f.crop[4] = 0
                    /\ x = (w - cw) \div 2
                    /\ x >= 0 /\ x + cw <= w
                    /\ (w - cw - x) - x \in {0, 1}

\* C25 witness: a 32 x 18 landscape frame was cropped to 10 x 18 at offset 11.
C25_Witness ==
    /\ call.fn = "video_filter" /\ ret # <<>>
    /\ call.width = 32 /\ call.height = 18
    /\ ret[1].crop = <<10, 18, 11, 0>>

\* C26: the subtitle file is one style header block followed by exactly one
\* event line per chunk, in chunk order; in every start and end time the
\* minutes field is in 00..59 and the seconds field in 00.00..59.99; no text
\* holds a raw newline.
C26_AssFileWellFormed ==
    (call.fn = "create_ass_subtitles" /\ ret # <<>>)
        => LET file == ret[1]
               wellFormed(t) ==
                   /\ t.MM \in 0..59 /\ t.SS \in 0..59 /\ t.CC \in 0..99 IN
            /\ Len(file) = 1 + Len(call.chunks)
            /\ file[1].line = "header"
            /\ \A k \in 1..Len(call.chunks) :
                  /\ file[k + 1].line = "Dialogue"
                  /\ wellFormed(file[k + 1].start)
                  /\ wellFormed(file[k + 1].end)
                  /\ \A m \in 1..Len(file[k + 1].text) :
                        file[k + 1].text[m] # "\n"

-----------------------------------------------------------------------------
\* SmartScheduler (backend/core/ai_engine/smart_scheduler.py).
\*
\* The scheduler keeps its items in memory (self.scheduled_content) and
\* mirrors them in the scheduled_content table.  start_scheduler calls
\* process_scheduled_content every check_interval seconds; one pass takes the
\* items that are PENDING and due and handles them one after the other.  The
\* database is taken to answer every statement, so update_content_status
\* always reaches its in-memory update.

NumItems == 2
MaxAttempts == 5

item_max_retries == 3

Items == 1..NumItems

\* ScheduledContent as schedule_content_batch creates it: PENDING, retry
\* counters at their defaults, scheduled for a time still to come.  attempts
\* counts the calls of _generate_and_upload_content made for the item.
ScheduledContent ==
    [status |-> "PENDING", retry_count |-> 0, max_retries |-> item_max_retries,
     db_retry_count |-> 0, due |-> FALSE, attempts |-> 0]

\* update_content_status: the row's retry_count grows on FAILED only; of the
\* in-memory item only the status (and message, completion time) is written.
update_content_status(item, status) ==
    [item EXCEPT !.status = status,
                 !.db_retry_count = IF status = "FAILED" THEN @ + 1 ELSE @]

InitScheduler ==
    /\ InitPipeline
    /\ workers = 1
    /\ call = NoCall /\ ret = <<>>
    /\ fast = [pc |-> "none"]
    /\ sched = [i \in Items |-> ScheduledContent]

\* The wall clock reaches the item's scheduled_time.
scheduled_time_reached(i) ==
    /\ sched[i].status = "PENDING"
    /\ ~sched[i].due
    /\ sched' = [sched EXCEPT ![i].due = TRUE]
    /\ UNCHANGED <<pipeVars, fnVars, fast>>

\* process_scheduled_content, one ready item up to the call of
\* _generate_and_upload_content: the item is marked PROCESSING.
process_item(i) ==
    /\ \A k \in Items : sched[k].status # "PROCESSING"
    /\ sched[i].status = "PENDING" /\ sched[i].due
    /\ sched[i].attempts < MaxAttempts
    /\ sched' = [sched EXCEPT
                   ![i] = [update_content_status(@, "PROCESSING")
                              EXCEPT !.attempts = @ + 1]]
    /\ UNCHANGED <<pipeVars, fnVars, fast>>

\* process_scheduled_content, the same item after the call returned:
\* COMPLETED on success; otherwise PENDING again one hour later while the
\* in-memory retry_count is below max_retries, else FAILED.
\* _generate_and_upload_content returns False on every exception, so the
\* outer except branch is not taken.
item_processed(i, success) ==
    /\ sched[i].status = "PROCESSING"
    /\ sched' = [sched EXCEPT ![i] =
          IF success
          THEN update_content_status(@, "COMPLETED")
          ELSE IF @.retry_count < @.max_retries
               THEN [update_content_status(@, "PENDING") EXCEPT !.due = FALSE]
               ELSE update_content_status(@, "FAILED")]
    /\ UNCHANGED <<pipeVars, fnVars, fast>>

NextScheduler ==
    \/ \E i \in Items : scheduled_time_reached(i)
    \/ \E i \in Items : process_item(i)
    \/ \E i \in Items, success \in BOOLEAN : item_processed(i, success)

SpecScheduler == InitScheduler /\ [][NextScheduler]_vars

\* C28: an item is attempted at most max_retries + 1 times: once the attempt
\* after max_retries failed ones has failed too it is FAILED and never
\* PENDING again.
C28_ItemFailsAfterMaxRetries ==
    \A i \in Items :
        /\ sched[i].attempts <= sched[i].max_retries + 1
        /\ sched[i].attempts = sched[i].max_retries + 1
              => sched[i].status \in {"PROCESSING", "COMPLETED", "FAILED"}

-----------------------------------------------------------------------------
\* The fast builders (backend/core/video_engine/fast_video_builder.py) and
\* their last resort build_video (backend/core/video_engine/video_builder.py).
\*
\* fast.pc is the position of the call, fast.tried the encoding stages run so
\* far with their outcomes, fast.bv the parameters build_video was entered
\* with.  Python values are written as strings: "True" and "None" stand for
\* the objects True and None, every other string for itself.

PyTrue == "True"
PyNone == "None"
Unbound == "unbound"

\* Python truthiness of the values above.
truthy(v) == v \notin {"", PyNone, "False"}

TopicArgs == {"", "space", "ocean"}
NicheArgs == {"", "facts"}
EntryPoints == {"build_video_super_fast", "build_video_fast"}

\* The encoding stages in the order the call chain reaches them.
Stages == <<"super_fast_gpu", "fast_gpu", "nvenc_write", "libx264_write">>

\* What a stage can end with: subprocess.run(check=True) raises
\* CalledProcessError on a non-zero exit and other exceptions otherwise
\* (no ffmpeg binary); write_videofile raises some Exception.
StageOutcomes == {"ok", "CalledProcessError", "Exception"}

\* def build_video(script_text, output_path, use_voiceover=True, topic=None,
\* niche=None), entered as build_video(text, str(output_path), a3, a4): the
\* third and fourth positional arguments bind use_voiceover and topic.
build_video_call(a3, a4) ==
    [use_voiceover |-> a3, topic |-> a4, niche |-> PyNone]

\* Where the call goes after a stage ended with this outcome, without return.
after_stage_no_return(stage, outcome) ==
    CASE stage = "super_fast_gpu" ->
            IF outcome \in {"ok", "CalledProcessError"}
            THEN "fast:duration" ELSE "raised"
      [] stage = "fast_gpu" ->
            IF outcome = "ok" THEN "returned"
            ELSE IF outcome = "CalledProcessError"
                 THEN "build_video:voiceover" ELSE "raised"
      [] stage = "nvenc_write" ->
            IF outcome = "ok" THEN "returned" ELSE "build_video:libx264"
      [] stage = "libx264_write" ->
            IF outcome = "ok" THEN "returned" ELSE "raised"

\* Where the call goes after a stage ended with this outcome: a success
\* returns the output path; the two commands hand over on CalledProcessError
\* only, the NVENC write on every Exception, the libx264 write never.
after_stage(stage, outcome) ==
    CASE stage = "super_fast_gpu" ->
            IF outcome = "ok" THEN "returned"
            ELSE IF outcome = "CalledProcessError"
                 THEN "fast:duration" ELSE "raised"
      [] stage = "fast_gpu" ->
            IF outcome = "ok" THEN "returned"
            ELSE IF outcome = "CalledProcessError"
                 THEN "build_video:voiceover" ELSE "raised"
      [] stage = "nvenc_write" ->
            IF outcome = "ok" THEN "returned" ELSE "build_video:libx264"
      [] stage = "libx264_write" ->
            IF outcome = "ok" THEN "returned" ELSE "raised"

\* The stage has run and ended with the outcome.
run_stage(stage, outcome) ==
    [fast EXCEPT !.tried = Append(@, [stage |-> stage, outcome |-> outcome]),
                 !.pc = after_stage(stage, outcome)]

InitFastBuilder ==
    /\ InitPipeline
    /\ workers = 1
    /\ call = NoCall /\ ret = <<>>
    /\ sched = <<>>
    /\ \E entry \in EntryPoints, topic \in TopicArgs, niche \in NicheArgs :
          fast = [pc |-> IF entry = "build_video_super_fast"
                         THEN "super_fast:duration" ELSE "fast:duration",
                  entry |-> entry, topic |-> topic, niche |-> niche,
                  tried |-> <<>>,
                  bv |-> build_video_call(Unbound, Unbound),
                  voice |-> Unbound, background |-> Unbound]

\* AudioFileClip(voiceover_path).duration, read by both fast builders; an
\* unreadable voice-over ends the call with the exception.
audio_duration(ok) ==
    /\ fast.pc \in {"super_fast:duration", "fast:duration"}
    /\ fast' = [fast EXCEPT !.pc =
          IF ~ok THEN "raised"
          ELSE IF @ = "super_fast:duration"
               THEN "super_fast:ffmpeg" ELSE "fast:ffmpeg"]
    /\ UNCHANGED <<pipeVars, fnVars, sched>>

\* build_video_super_fast: the full GPU command; on CalledProcessError
\* build_video_fast is entered with the same topic and niche.
super_fast_command(outcome) ==
    /\ fast.pc = "super_fast:ffmpeg"
    /\ fast' = run_stage("super_fast_gpu", outcome)
    /\ UNCHANGED <<pipeVars, fnVars, sched>>

\* build_video_fast: the GPU command; on CalledProcessError
\* build_video(text, str(output_path), topic, niche) is entered.
fast_command(outcome) ==
    /\ fast.pc = "fast:ffmpeg"
    /\ fast' = [run_stage("fast_gpu", outcome) EXCEPT !.bv =
                  IF outcome = "CalledProcessError"
                  THEN build_video_call(fast.topic, fast.niche) ELSE @]
    /\ UNCHANGED <<pipeVars, fnVars, sched>>

\* build_video, step 1: the voice-over is generated (for bv.niche) when
\* use_voiceover is truthy; a failed generation is reported and passed over.
build_video_voiceover(generated) ==
    /\ fast.pc = "build_video:voiceover"
    /\ fast' = [fast EXCEPT
                  !.voice = IF truthy(fast.bv.use_voiceover)
                            THEN (IF generated THEN "generated" ELSE "failed")
                            ELSE "disabled",
                  !.pc = "build_video:background"]
    /\ UNCHANGED <<pipeVars, fnVars, sched>>

\* build_video, step 2: the background is searched for bv.topic when that is
\* truthy, else taken from the local directory; none found raises
\* FileNotFoundError.
build_video_background(found) ==
    /\ fast.pc = "build_video:background"
    /\ fast' = [fast EXCEPT
                  !.background = IF ~found THEN "none"
                                 ELSE IF truthy(fast.bv.topic)
                                      THEN "searched" ELSE "local",
                  !.pc = IF found THEN "build_video:nvenc" ELSE "raised"]
    /\ UNCHANGED <<pipeVars, fnVars, sched>>

\* build_video: write_videofile with h264_nvenc.
write_nvenc(outcome) ==
    /\ fast.pc = "build_video:nvenc"
    /\ outcome # "CalledProcessError"
    /\ fast' = run_stage("nvenc_write", outcome)
    /\ UNCHANGED <<pipeVars, fnVars, sched>>

\* build_video: write_videofile with libx264, outside every try.
write_libx264(outcome) ==
    /\ fast.pc = "build_video:libx264"
    /\ outcome # "CalledProcessError"
    /\ fast' = run_stage("libx264_write", outcome)
    /\ UNCHANGED <<pipeVars, fnVars, sched>>

NextFastBuilder ==
    \/ \E ok \in BOOLEAN : audio_duration(ok)
    \/ \E outcome \in StageOutcomes : super_fast_command(outcome)
    \/ \E outcome \in StageOutcomes : fast_command(outcome)
    \/ \E generated \in BOOLEAN : build_video_voiceover(generated)
    \/ \E found \in BOOLEAN : build_video_background(found)
    \/ \E outcome \in StageOutcomes : write_nvenc(outcome)
    \/ \E outcome \in StageOutcomes : write_libx264(outcome)

SpecFastBuilder == InitFastBuilder /\ [][NextFastBuilder]_vars

\* C29: a call of build_video_super_fast runs the stages in the fixed order
\* super-fast GPU command, fast GPU command, NVENC write, libx264 write, each
\* at most once; a stage is run only after every earlier one failed; the
\* call has returned exactly when the last stage run succeeded.
C29_StagesInOrderUntilOneSucceeds ==
    fast.entry = "build_video_super_fast"
        => LET n == Len(fast.tried) IN
            /\ n <= Len(Stages)
            /\ \A k \in 1..n : fast.tried[k].stage = Stages[k]
            /\ \A k \in 1..(n - 1) : fast.tried[k].outcome # "ok"
            /\ (fast.pc = "returned")
                  <=> (n > 0 /\ fast.tried[n].outcome = "ok")

\* C29 witness: all four stages were run, the first three failed and the
\* libx264 write succeeded.
C29_Witness ==
    /\ fast.entry = "build_video_super_fast"
    /\ fast.pc = "returned"
    /\ Len(fast.tried) = 4
    /\ fast.tried[1].outcome = "CalledProcessError"
    /\ fast.tried[4].stage = "libx264_write"
    /\ fast.tried[4].outcome = "ok"

\* C30: whenever build_video runs as the fallback of build_video_fast, its
\* topic and niche are the ones the caller passed to build_video_fast and
\* use_voiceover is True, so the voice-over is not disabled.
C30_FallbackKeepsTopicNicheVoiceover ==
    fast.bv.topic # Unbound
        => /\ fast.bv.topic = fast.topic
           /\ fast.bv.niche = fast.niche
           /\ fast.bv.use_voiceover = PyTrue
           /\ fast.voice # "disabled"

====
